---- MODULE Spec2Model ----
(***************************************************************************)
(* Toxicity scoring and aggregation of toxic-news-pipeline:                *)
(*   src/models/classifier.py   ToxicityClassifier (_split_text, predict)  *)
(*   src/analytics/analytics.py ToxicityPredictor (predict_text,           *)
(*                              predict_all_articles,                      *)
(*                              get_statistics_by_site,                    *)
(*                              display_statistics)                        *)
(*   src/api/app.py             predict (POST /predict)                    *)
(* A text is a sequence of one-character strings.  A number that is a      *)
(* float in the program is an exact rational [n |-> .., d |-> ..]; d = 0   *)
(* stands for NaN (numpy's mean of an empty list).                         *)
(*                                                                         *)
(* Specifications:                                                         *)
(*   SpecSplit    _split_text on a text and a max_words                    *)
(*   SpecPredict  predict on a text, for any answers of the scorer, and    *)
(*                the response of POST /predict to it                      *)
(*   SpecStats    get_statistics_by_site on a prediction store             *)
(*   SpecDisplay  display_statistics on a prediction store                 *)
(*   Spec         the service: predict_all_articles (one step per          *)
(*                article), predict_text and get_statistics_by_site        *)
(***************************************************************************)
EXTENDS Integers, Sequences, FiniteSets, TLC

VARIABLES
    id2label,       \* classifier: label vocabulary, a sequence of label names
    toxic_labels,   \* classifier: indices of the toxicity labels (set at __init__)
    cfg,            \* the three thresholds read from the environment at import
    text,           \* input of _split_text / predict
    max_words,      \* input of _split_text
    chunks,         \* value returned by _split_text
    segment_probs,  \* predict: what _predict_raw returned for each segment
    toxic_score,    \* predict: the document toxic score (local of predict)
    result,         \* value returned by predict
    articles,       \* article store, in the order find({}) yields it
    unique_index,   \* whether create_index("url", unique=True) took effect
    predictions,    \* prediction store, in insertion order
    statistics,     \* statistics store, in insertion order
    stats,          \* predict_all_articles: the counters
    i,              \* predict_all_articles: number of articles the loop has left behind
    pc,             \* position of the running operation
    calls_made,     \* number of calls made on the service so far
    batch_runs,     \* number of runs of predict_all_articles that have returned
    call,           \* the last call or loop step, with its inputs
    ret,            \* what the last call returned
    scorer_log      \* segments handed to _predict_raw by the last call or loop step

vars == << id2label, toxic_labels, cfg, text, max_words, chunks, segment_probs,
           toxic_score, result, articles, unique_index, predictions, statistics, stats, i,
           pc, calls_made, batch_runs, call, ret, scorer_log >>

classifierVars == << id2label, toxic_labels, cfg >>
splitVars == << text, max_words, chunks >>
predictVars == << segment_probs, toxic_score, result >>
serviceVars == << articles, unique_index, predictions, statistics, stats, i,
                  calls_made, batch_runs, call, ret, scorer_log >>

\* ------------------------------------------------------------------ bounds
MaxTextLen == 5
MaxMaxWords == 3
MaxSegments == 2
MaxArticles == 2
MaxRuns == 3

\* ------------------------------------------------------------------ text
Whitespace == {" ", "\t"}
Letters == {"a", "b"}

Min(a, b) == IF a <= b THEN a ELSE b

\* s[lo:hi], 0-based and half-open as in Python (lo, hi >= 0)
Slice(s, lo, hi) == SubSeq(s, lo + 1, Min(hi, Len(s)))

RECURSIVE SplitRange(_, _, _)
\* the words of s[lo..hi]: the halves' words, the word that spans the cut made whole
SplitRange(s, lo, hi) ==
    IF lo > hi THEN <<>>
    ELSE IF lo = hi THEN (IF s[lo] \in Whitespace THEN <<>> ELSE << <<s[lo]>> >>)
    ELSE LET mid == (lo + hi) \div 2
             L == SplitRange(s, lo, mid)
             R == SplitRange(s, mid + 1, hi)
         IN  IF s[mid] \notin Whitespace /\ s[mid + 1] \notin Whitespace
             THEN SubSeq(L, 1, Len(L) - 1) \o << L[Len(L)] \o R[1] >> \o Tail(R)
             ELSE L \o R

\* str.split(): the maximal runs of non-whitespace characters, in order
split(s) == SplitRange(s, 1, Len(s))

RECURSIVE join(_)
\* " ".join(words)
join(words) ==
    IF words = <<>> THEN <<>>
    ELSE IF Len(words) = 1 THEN words[1]
    ELSE LET mid == Len(words) \div 2
         IN  join(SubSeq(words, 1, mid)) \o <<" ">> \o join(SubSeq(words, mid + 1, Len(words)))

RECURSIVE StripLeft(_)
StripLeft(s) ==
    IF s # <<>> /\ Head(s) \in Whitespace THEN StripLeft(Tail(s)) ELSE s

RECURSIVE StripRight(_)
StripRight(s) ==
    IF s # <<>> /\ s[Len(s)] \in Whitespace
    THEN StripRight(SubSeq(s, 1, Len(s) - 1)) ELSE s

\* str.strip()
strip(s) == StripRight(StripLeft(s))

IsBlankNoStrip(s) == s = <<>>

\* not text or not text.strip()
IsBlank(s) == s = <<>> \/ strip(s) = <<>>

\* ------------------------------------------------------------------ _split_text
RECURSIVE SplitLoopShort(_, _, _, _)
SplitLoopShort(words, k, mw, acc) ==
    IF k >= Len(words) THEN acc
    ELSE SplitLoopShort(words, k + mw, mw,
                        Append(acc, join(Slice(words, k, k + mw - 1))))

RECURSIVE SplitLoop(_, _, _, _)
\* for i in range(0, len(words), max_words): chunks.append(" ".join(words[i:i + max_words]))
SplitLoop(words, k, mw, acc) ==
    IF k >= Len(words) THEN acc
    ELSE SplitLoop(words, k + mw, mw, Append(acc, join(Slice(words, k, k + mw))))

_split_text(t, mw) == SplitLoop(split(t), 0, mw, <<>>)

\* ------------------------------------------------------------------ numbers
\* probabilities are counted in units of 1/PROB_DEN
PROB_DEN == 10000

Rat(n, d) == [n |-> n, d |-> d]
NaN == Rat(0, 0)
IsNaN(a) == a.d = 0

\* a >= b and a > b on floats: False as soon as one side is NaN
Geq(a, b) == ~IsNaN(a) /\ ~IsNaN(b) /\ a.n * b.d >= b.n * a.d
Gt(a, b) == ~IsNaN(a) /\ ~IsNaN(b) /\ a.n * b.d > b.n * a.d
RatEq(a, b) == ~IsNaN(a) /\ ~IsNaN(b) /\ a.n * b.d = b.n * a.d

RECURSIVE SumSeq(_)
SumSeq(s) == IF s = <<>> THEN 0 ELSE Head(s) + SumSeq(Tail(s))

\* np.mean of a list of probabilities; NaN for the empty list
Mean(xs) == Rat(SumSeq(xs), PROB_DEN * Len(xs))

\* round(x, nd) with x = a.n / a.d and unit = 10^nd, as a count of 1/unit;
\* a tie goes to the even neighbour
RoundTo(a, unit) ==
    LET q == (a.n * unit) \div a.d
        r == (a.n * unit) % a.d
    IN  IF 2 * r > a.d THEN q + 1
        ELSE IF 2 * r < a.d THEN q
        ELSE IF q % 2 = 0 THEN q ELSE q + 1

\* round(x, 3)
Round3(a) == IF IsNaN(a) THEN NaN ELSE Rat(RoundTo(a, 1000), 1000)

\* ------------------------------------------------------------------ configuration
THRESHOLD_SLIGHTLY_TOXIC == Rat(3, 10)
THRESHOLD_VERY_TOXIC == Rat(65, 100)
ARTICLE_THRESHOLD == Rat(1, 2)
DEFAULT_MAX_WORDS == 100

DefaultConfig ==
    [slightly |-> THRESHOLD_SLIGHTLY_TOXIC, very |-> THRESHOLD_VERY_TOXIC,
     article |-> ARTICLE_THRESHOLD]

\* what os.getenv can make of the three thresholds: the defaults, the two level
\* thresholds in the wrong order, and an article threshold above both
Configs ==
    { DefaultConfig,
      [slightly |-> Rat(65, 100), very |-> Rat(3, 10), article |-> Rat(1, 2)],
      [slightly |-> Rat(3, 10), very |-> Rat(65, 100), article |-> Rat(8, 10)] }

\* ------------------------------------------------------------------ label vocabulary
UpperCase == <<"A", "B", "C", "D", "E", "F", "G", "H", "I", "J", "K", "L", "M",
               "N", "O", "P", "Q", "R", "S", "T", "U", "V", "W", "X", "Y", "Z">>
LowerCase == <<"a", "b", "c", "d", "e", "f", "g", "h", "i", "j", "k", "l", "m",
               "n", "o", "p", "q", "r", "s", "t", "u", "v", "w", "x", "y", "z">>

LowerChar(c) ==
    IF \E k \in 1..26 : UpperCase[k] = c
    THEN LowerCase[CHOOSE k \in 1..26 : UpperCase[k] = c]
    ELSE c

\* str.lower()
lower(s) == [k \in 1..Len(s) |-> LowerChar(s[k])]

\* sub in s
Contains(s, sub) ==
    \E k \in 1..(Len(s) - Len(sub) + 1) : SubSeq(s, k, k + Len(sub) - 1) = sub

Keywords ==
    { <<"t", "o", "x", "i", "c">>, <<"i", "n", "s", "u", "l", "t">>,
      <<"o", "b", "s", "c", "e", "n", "e">>, <<"t", "h", "r", "e", "a", "t">>,
      <<"h", "a", "t", "e">> }

\* the list self.toxic_labels, as positions 1..Len(labels) of the vocabulary
\* (the program's ids 0..Len(labels)-1, shifted by one)
ToxicLabels(labels) ==
    SelectSeq([k \in 1..Len(labels) |-> k],
              LAMBDA k : \E kw \in Keywords : Contains(lower(labels[k]), kw))

Vocabularies ==
    { << <<"t", "o", "x", "i", "c">> >>,
      << <<"I", "n", "s", "u", "l", "t">>, <<"n", "e", "u", "t", "r", "a", "l">>,
         <<"i", "d", "e", "n", "t", "i", "t", "y", "_", "h", "a", "t", "e">> >>,
      << <<"L", "A", "B", "E", "L", "_", "0">> >> }

\* ------------------------------------------------------------------ predict
\* [seg[i] for i in self.toxic_labels]
Restrict(seg, tl) == [k \in 1..Len(tl) |-> seg[tl[k]]]

\* float(np.mean([seg[i] for i in self.toxic_labels]))
SegmentToxicScore(seg, tl) == Mean(Restrict(seg, tl))

RECURSIVE PyMin(_)
PyMin(xs) ==
    IF Len(xs) = 1 THEN xs[1]
    ELSE LET m == PyMin(SubSeq(xs, 1, Len(xs) - 1))
         IN  IF Gt(m, xs[Len(xs)]) THEN xs[Len(xs)] ELSE m

RECURSIVE PyMax(_)
\* max(xs) of a non-empty list: the first element no later one is greater than
PyMax(xs) ==
    IF Len(xs) = 1 THEN xs[1]
    ELSE LET m == PyMax(SubSeq(xs, 1, Len(xs) - 1))
         IN  IF Gt(xs[Len(xs)], m) THEN xs[Len(xs)] ELSE m

\* max([... for seg in segment_probs]), for at least one segment
ToxicScore(probs, tl) ==
    PyMax([k \in 1..Len(probs) |-> SegmentToxicScore(probs[k], tl)])

LevelStrict(score, c) ==
    IF Gt(score, c.very) THEN "very_toxic"
    ELSE IF Gt(score, c.slightly) THEN "slightly_toxic"
    ELSE "non_toxic"

Level(score, c) ==
    IF Geq(score, c.very) THEN "very_toxic"
    ELSE IF Geq(score, c.slightly) THEN "slightly_toxic"
    ELSE "non_toxic"

PredictionFromLevel(score, c) ==
    IF Level(score, c) = "non_toxic" THEN "non_toxic" ELSE "toxic"

Prediction(score, c) ==
    IF Geq(score, c.article) THEN "toxic" ELSE "non_toxic"

\* round(float(np.mean([seg[i] for seg in segment_probs])), 3) for every label i
PerLabel(probs, labels) ==
    [k \in 1..Len(labels) |->
        Round3(Mean([s \in 1..Len(probs) |-> probs[s][k]]))]

\* predict from the level on, given the document toxic score
PredictResult(score, probs, labels, c) ==
    [raised |-> "no",
     prediction |-> Prediction(score, c),
     confidence |-> Round3(score),
     toxicity_level |-> Level(score, c),
     per_label |-> PerLabel(probs, labels)]

\* predict after _split_text, given the segments and what _predict_raw returned
\* for each of them; max() of an empty list raises ValueError
PredictSegments(segments, probs, labels, tl, c) ==
    IF segments = <<>>
    THEN [raised |-> "ValueError"]
    ELSE PredictResult(ToxicScore(probs, tl), probs, labels, c)

\* ------------------------------------------------------------------ inputs
SeqsUpTo(S, n) == UNION { [1..k -> S] : k \in 0..n }

\* a text of n words
TextOfWords(n) ==
    IF n = 0 THEN <<>>
    ELSE [k \in 1..(2 * n - 1) |-> IF k % 2 = 0 THEN " " ELSE IF k % 4 = 1 THEN "a" ELSE "b"]

\* texts for _split_text: every short text, and two longer ones of 5 and 7 words
SplitTexts ==
    SeqsUpTo(Letters \cup Whitespace, MaxTextLen)
        \cup { TextOfWords(5), <<" ">> \o TextOfWords(7) \o <<"\t", " ">> }

\* texts for predict: blank ones, and texts of 1 .. MaxSegments segments
PredictTexts ==
    { <<>>, <<" ", "\t">> }
        \cup { TextOfWords(DEFAULT_MAX_WORDS * (k - 1) + 1) : k \in 1..MaxSegments }
        \cup { TextOfWords(DEFAULT_MAX_WORDS * k) : k \in 1..(MaxSegments - 1) }

\* probabilities the scorer may return, by size of the vocabulary
ProbValues(labels) ==
    IF Len(labels) = 1
    THEN {2000, 2996, 3000, 4996, 5000, 6496, 6500, 8000}
    ELSE {1000, 5000, 8000}

\* the vectors _predict_raw(...)[0] may return
ScorerOutputs(labels) == [1..Len(labels) -> ProbValues(labels)]

NoCall == [op |-> "none"]
NoResult == [raised |-> "none"]
NoStats ==
    [processed |-> 0, success |-> 0, errors |-> 0, toxic |-> 0, non_toxic |-> 0,
     slightly_toxic |-> 0, very_toxic |-> 0]

SplitIdle == text = <<>> /\ max_words = DEFAULT_MAX_WORDS /\ chunks = <<>>
PredictIdle == segment_probs = <<>> /\ toxic_score = NaN /\ result = NoResult
ServiceIdle ==
    /\ articles = <<>> /\ unique_index = TRUE /\ predictions = <<>>
    /\ statistics = <<>> /\ stats = NoStats /\ i = 0 /\ calls_made = 0 /\ batch_runs = 0
    /\ call = NoCall /\ ret = NoResult /\ scorer_log = <<>>

\* ToxicityClassifier.__init__ on a vocabulary, with the thresholds of a configuration
ClassifierInit(vocabularies, configs) ==
    /\ id2label \in vocabularies
    /\ toxic_labels = ToxicLabels(id2label)
    /\ cfg \in configs

\* ------------------------------------------------------------------ _split_text alone
InitSplit ==
    /\ ClassifierInit({ << <<"t", "o", "x", "i", "c">> >> }, {DefaultConfig})
    /\ text \in SplitTexts
    /\ max_words \in 1..MaxMaxWords
    /\ chunks = <<>>
    /\ PredictIdle /\ ServiceIdle
    /\ pc = "split_ready"

SplitText ==
    /\ pc = "split_ready"
    /\ chunks' = _split_text(text, max_words)
    /\ pc' = "split_returned"
    /\ UNCHANGED << classifierVars, text, max_words, predictVars, serviceVars >>

NextSplit == SplitText

SpecSplit == InitSplit /\ [][NextSplit]_vars

\* ------------------------------------------------------------------ predict alone
InitPredict ==
    /\ ClassifierInit(Vocabularies, Configs)
    /\ text \in PredictTexts
    /\ max_words = DEFAULT_MAX_WORDS
    /\ chunks = <<>>
    /\ PredictIdle /\ ServiceIdle
    /\ pc = "predict_ready"

\* predict returns, or raises ValueError for a text without a word
PredictReturns ==
    /\ pc = "predict_ready"
    /\ \E segments \in {_split_text(text, DEFAULT_MAX_WORDS)} :
           /\ \E probs \in [1..Len(segments) -> ScorerOutputs(id2label)] :
                 /\ segment_probs' = probs
                 /\ toxic_score' = IF segments = <<>> THEN NaN
                                   ELSE ToxicScore(probs, toxic_labels)
                 /\ result' = PredictSegments(segments, probs, id2label, toxic_labels, cfg)
           /\ chunks' = segments
           /\ scorer_log' = segments
    /\ pc' = "predict_returned"
    /\ UNCHANGED << classifierVars, text, max_words, articles, unique_index,
                    predictions, statistics, stats, i, calls_made, batch_runs, call, ret >>

\* _predict_raw raises on segment k: the exception leaves predict
PredictScorerFails ==
    /\ pc = "predict_ready"
    /\ \E segments \in {_split_text(text, DEFAULT_MAX_WORDS)} :
           /\ \E k \in 1..Len(segments) :
                 /\ \E probs \in [1..(k - 1) -> ScorerOutputs(id2label)] :
                       segment_probs' = probs
                 /\ scorer_log' = SubSeq(segments, 1, k)
           /\ chunks' = segments
    /\ toxic_score' = NaN
    /\ result' = [raised |-> "ScorerFailure"]
    /\ pc' = "predict_returned"
    /\ UNCHANGED << classifierVars, text, max_words, articles, unique_index,
                    predictions, statistics, stats, i, calls_made, batch_runs, call, ret >>

PredictResponseByLevel(res, c) ==
    [status |-> 200,
     is_toxic |-> res.toxicity_level # "non_toxic",
     article_score |-> res.confidence,
     per_label |-> res.per_label,
     threshold |-> c.article]

\* app.py lines 83-91: the response of POST /predict to what predict returned
\* (model, stored and id are constants of the response and left out)
PredictResponse(res, c) ==
    [status |-> 200,
     is_toxic |-> res.prediction = "toxic",
     article_score |-> res.confidence,
     per_label |-> res.per_label,
     threshold |-> c.article]

ApiCall(t) == [op |-> "POST /predict", text |-> t]

\* app.py lines 76-91, after predict_toxicity(req.text): the response is built,
\* or the exception becomes a 500. The request model has let the text through:
\* stripped of its outer whitespace, it has at least one character
ApiResponds ==
    /\ pc = "predict_returned"
    /\ strip(text) # <<>>
    /\ call' = ApiCall(text)
    /\ ret' = IF result.raised = "no" THEN PredictResponse(result, cfg)
              ELSE [status |-> 500]
    /\ pc' = "api_responded"
    /\ UNCHANGED << classifierVars, splitVars, predictVars, articles, unique_index,
                    predictions, statistics, stats, i, calls_made, batch_runs,
                    scorer_log >>

NextPredict == PredictReturns \/ PredictScorerFails \/ ApiResponds

SpecPredict == InitPredict /\ [][NextPredict]_vars

\* ------------------------------------------------------------------ the stores
TEXT_LIMIT == 1000

\* the document predict_all_articles builds for an article and its prediction
\* (title, predicted_at and article_id are carried along and left out here)
BatchDoc(article, res) ==
    [url |-> article.url, site |-> article.site,
     text |-> Slice(article.content, 0, TEXT_LIMIT),
     prediction |-> res.prediction, confidence |-> res.confidence,
     toxicity_level |-> res.toxicity_level]

\* the document predict_text builds: it has no site
TextDoc(t, url, res) ==
    [text |-> Slice(t, 0, TEXT_LIMIT), url |-> url,
     prediction |-> res.prediction, confidence |-> res.confidence,
     toxicity_level |-> res.toxicity_level]

\* the unique index on url rejects a second document with the same url
\* (a url of None counts as a value)
DuplicateUrl(store, doc) == \E k \in 1..Len(store) : store[k].url = doc.url
InsertAcceptedAlways(store, doc, unique) == TRUE

\* insert_one on the prediction store goes through unless the index rejects it
InsertAccepted(store, doc, unique) == ~(unique /\ DuplicateUrl(store, doc))

\* ------------------------------------------------------------------ the counters
\* lines 132-137: success, the level's counter, then toxic or non_toxic
OnInsertSuccess(st, res) ==
    LET a == [st EXCEPT !.success = @ + 1]
        b == [a EXCEPT ![res.toxicity_level] = @ + 1]
    IN  IF res.prediction = "toxic" THEN [b EXCEPT !.toxic = @ + 1]
        ELSE [b EXCEPT !.non_toxic = @ + 1]

OnInsertFailureAsSuccess(st) == [st EXCEPT !.success = @ + 1]

\* line 141
OnInsertFailure(st) == [st EXCEPT !.errors = @ + 1]

NotProcessed(st) == st

\* lines 112 and 144
Processed(st) == [st EXCEPT !.processed = @ + 1]

\* ------------------------------------------------------------------ the service
ServiceVocabulary == << <<"t", "o", "x", "i", "c">> >>
ServiceProbs == {2000, 4000, 8000}
ServiceScorerOutputs == [1..Len(ServiceVocabulary) -> ServiceProbs]

Sites == {"s1", "s2"}

\* the articles a store may hold, in the order find({}) yields them; the store's
\* own unique index keeps the urls distinct
ArticlePool ==
    << [url |-> "u1", site |-> "s1", content |-> <<"a">>],
       [url |-> "u2", site |-> "s1", content |-> <<"a", " ", "b">>],
       [url |-> "u4", site |-> "s2", content |-> <<" ">>],
       [url |-> "u5", site |-> "s1", content |-> <<>>],
       [url |-> "u3", site |-> "s2", content |-> <<"a">>] >>

\* the stores: up to MaxArticles consecutive articles of the pool
ArticleLists ==
    { SubSeq(ArticlePool, w[1], w[2]) :
        w \in { v \in (1..Len(ArticlePool)) \X (0..Len(ArticlePool)) :
                  v[2] - v[1] + 1 \in 0..MaxArticles } }

NoneDoc == [none |-> TRUE]

\* ToxicityPredictor.__init__ with the indexes created: the article store as found,
\* no prediction yet
Init ==
    /\ ClassifierInit({ServiceVocabulary}, {DefaultConfig})
    /\ SplitIdle /\ PredictIdle
    /\ articles \in ArticleLists
    /\ unique_index = TRUE
    /\ predictions = <<>>
    /\ statistics = <<>>
    /\ stats = NoStats /\ i = 0 /\ calls_made = 0 /\ batch_runs = 0
    /\ call = NoCall /\ ret = NoResult /\ scorer_log = <<>>
    /\ pc = "idle"

frame == << classifierVars, splitVars, predictVars, articles, unique_index >>

\* the frame of every step but those on which predict_all_articles returns
frame_runs == << frame, batch_runs >>

BatchCall(step) == [op |-> "predict_all_articles", step |-> step]

\* lines 83-102: an empty store returns at once, without a summary
BatchStart ==
    /\ pc = "idle" /\ calls_made < MaxRuns
    /\ calls_made' = calls_made + 1
    /\ call' = BatchCall("start")
    /\ scorer_log' = <<>>
    /\ i' = 0
    /\ IF Len(articles) = 0
       THEN /\ pc' = "idle"
            /\ ret' = [raised |-> "no", printed |-> "no_articles"]
            /\ stats' = stats
            /\ batch_runs' = batch_runs + 1
       ELSE /\ pc' = "batch"
            /\ ret' = NoResult
            /\ stats' = NoStats
            /\ batch_runs' = batch_runs
    /\ UNCHANGED << frame, predictions, statistics >>

\* lines 110-113: an article without content is counted and left
BatchSkipBlank ==
    /\ pc = "batch" /\ i < Len(articles)
    /\ IsBlank(articles[i + 1].content)
    /\ call' = BatchCall("skip")
    /\ scorer_log' = <<>>
    /\ stats' = Processed(stats)
    /\ i' = i + 1
    /\ UNCHANGED << frame_runs, predictions, statistics, pc, calls_made, ret >>

\* line 116 raising (the scorer fails): nothing catches it, the exception leaves
\* predict_all_articles
BatchPredictRaises ==
    /\ pc = "batch" /\ i < Len(articles)
    /\ ~IsBlank(articles[i + 1].content)
    /\ \E segments \in {_split_text(articles[i + 1].content, DEFAULT_MAX_WORDS)} :
          /\ scorer_log' = SubSeq(segments, 1, Min(1, Len(segments)))
          /\ call' = BatchCall(IF segments = <<>> THEN "value_error" ELSE "scorer_failure")
          /\ ret' = [raised |-> IF segments = <<>> THEN "ValueError" ELSE "ScorerFailure",
                     printed |-> "nothing"]
    /\ pc' = "idle"
    /\ UNCHANGED << frame_runs, predictions, statistics, stats, i, calls_made >>

\* lines 116-139 and 144: scored and inserted
BatchInsertOk ==
    /\ pc = "batch" /\ i < Len(articles)
    /\ ~IsBlank(articles[i + 1].content)
    /\ \E segments \in {_split_text(articles[i + 1].content, DEFAULT_MAX_WORDS)} :
       \E probs \in [1..Len(segments) -> ServiceScorerOutputs] :
       \E res \in {PredictSegments(segments, probs, id2label, toxic_labels, cfg)} :
          /\ res.raised = "no"
          /\ InsertAccepted(predictions, BatchDoc(articles[i + 1], res), unique_index)
          /\ predictions' = Append(predictions, BatchDoc(articles[i + 1], res))
          /\ stats' = Processed(OnInsertSuccess(stats, res))
          /\ scorer_log' = segments
    /\ call' = BatchCall("insert_ok")
    /\ i' = i + 1
    /\ UNCHANGED << frame_runs, statistics, pc, calls_made, ret >>

\* lines 116-131 and 140-144: scored, and insert_one raises (a duplicate url under
\* the unique index, or the store failing)
BatchInsertFails ==
    /\ pc = "batch" /\ i < Len(articles)
    /\ ~IsBlank(articles[i + 1].content)
    /\ \E segments \in {_split_text(articles[i + 1].content, DEFAULT_MAX_WORDS)} :
          /\ segments # <<>>
          /\ scorer_log' = segments
    /\ call' = BatchCall("insert_failed")
    /\ stats' = Processed(OnInsertFailure(stats))
    /\ i' = i + 1
    /\ UNCHANGED << frame_runs, predictions, statistics, pc, calls_made, ret >>

\* line 146: the loop is over, the summary is printed
BatchSummary ==
    /\ pc = "batch" /\ i = Len(articles)
    /\ call' = BatchCall("summary")
    /\ scorer_log' = <<>>
    /\ pc' = "idle"
    /\ ret' = [raised |-> "no", printed |-> "summary", summary |-> stats]
    /\ batch_runs' = batch_runs + 1
    /\ UNCHANGED << frame, predictions, statistics, stats, i, calls_made >>

\* ------------------------------------------------------------------ predict_text
TextInputs == { <<>>, <<"\t", " ">>, <<"a">> }
UrlInputs == {"None", "u1"}

TextCall(t, url) == [op |-> "predict_text", text |-> t, url |-> url]

\* lines 58-59
PredictTextBlank ==
    /\ pc = "idle" /\ calls_made < MaxRuns
    /\ \E t \in TextInputs, url \in UrlInputs :
          /\ IsBlank(t)
          /\ call' = TextCall(t, url)
    /\ calls_made' = calls_made + 1
    /\ scorer_log' = <<>>
    /\ ret' = [raised |-> "no", error |-> "Le texte ne peut pas etre vide",
               prediction |-> NoneDoc]
    /\ UNCHANGED << frame_runs, predictions, statistics, stats, i, pc >>

\* line 61 raising: the scorer fails, or the text has no word for max()
PredictTextRaises ==
    /\ pc = "idle" /\ calls_made < MaxRuns
    /\ \E t \in TextInputs, url \in UrlInputs :
          /\ ~IsBlank(t)
          /\ call' = TextCall(t, url)
          /\ \E segments \in {_split_text(t, DEFAULT_MAX_WORDS)} :
                /\ scorer_log' = SubSeq(segments, 1, Min(1, Len(segments)))
                /\ ret' = [raised |-> IF segments = <<>> THEN "ValueError"
                                      ELSE "ScorerFailure"]
    /\ calls_made' = calls_made + 1
    /\ UNCHANGED << frame_runs, predictions, statistics, stats, i, pc >>

\* lines 61-74
PredictTextInsertOk ==
    /\ pc = "idle" /\ calls_made < MaxRuns
    /\ \E t \in TextInputs, url \in UrlInputs :
       \E segments \in {_split_text(t, DEFAULT_MAX_WORDS)} :
       \E probs \in [1..Len(segments) -> ServiceScorerOutputs] :
       \E res \in {PredictSegments(segments, probs, id2label, toxic_labels, cfg)} :
          /\ ~IsBlank(t)
          /\ res.raised = "no"
          /\ InsertAccepted(predictions, TextDoc(t, url, res), unique_index)
          /\ call' = TextCall(t, url)
          /\ scorer_log' = segments
          /\ predictions' = Append(predictions, TextDoc(t, url, res))
          /\ ret' = [raised |-> "no", success |-> TRUE,
                     prediction |-> TextDoc(t, url, res)]
    /\ calls_made' = calls_made + 1
    /\ UNCHANGED << frame_runs, statistics, stats, i, pc >>

\* lines 61-72 and 75-76
PredictTextInsertFails ==
    /\ pc = "idle" /\ calls_made < MaxRuns
    /\ \E t \in TextInputs, url \in UrlInputs :
       \E segments \in {_split_text(t, DEFAULT_MAX_WORDS)} :
       \E probs \in [1..Len(segments) -> ServiceScorerOutputs] :
       \E res \in {PredictSegments(segments, probs, id2label, toxic_labels, cfg)} :
          /\ ~IsBlank(t)
          /\ res.raised = "no"
          /\ call' = TextCall(t, url)
          /\ scorer_log' = segments
          /\ ret' = [raised |-> "no", success |-> FALSE, error |-> "insert_one",
                     prediction |-> TextDoc(t, url, res)]
    /\ calls_made' = calls_made + 1
    /\ UNCHANGED << frame_runs, predictions, statistics, stats, i, pc >>

\* ------------------------------------------------------------------ get_statistics_by_site
HasSite(doc) == "site" \in DOMAIN doc

\* the site a document is grouped under; a document without the field is grouped
\* under null when the server keeps the key
SiteOf(doc) == IF HasSite(doc) THEN doc.site ELSE "None"

\* lines 150-159: one result per (site, toxicity_level) present, with its count
Groups(store) ==
    { [site |-> SiteOf(store[k]), level |-> store[k].toxicity_level,
       count |-> Cardinality({ j \in 1..Len(store) :
                                 /\ SiteOf(store[j]) = SiteOf(store[k])
                                 /\ store[j].toxicity_level = store[k].toxicity_level })]
      : k \in 1..Len(store) }

RECURSIVE SumCounts(_)
SumCounts(gs) ==
    IF gs = {} THEN 0
    ELSE LET g == CHOOSE x \in gs : TRUE IN g.count + SumCounts(gs \ {g})

\* site_stats[site][level] after the loop of lines 162-169
LevelCount(gs, site, level) ==
    SumCounts({ g \in gs : g.site = site /\ g.level = level })

SiteStatsSwapped(gs, site) ==
    [total |-> SumCounts({ g \in gs : g.site = site }),
     non_toxic |-> LevelCount(gs, site, "non_toxic"),
     slightly_toxic |-> LevelCount(gs, site, "very_toxic"),
     very_toxic |-> LevelCount(gs, site, "very_toxic")]

\* site_stats[site] after the loop of lines 162-169
SiteStats(gs, site) ==
    [total |-> SumCounts({ g \in gs : g.site = site }),
     non_toxic |-> LevelCount(gs, site, "non_toxic"),
     slightly_toxic |-> LevelCount(gs, site, "slightly_toxic"),
     very_toxic |-> LevelCount(gs, site, "very_toxic")]

PctFloor(count, total) == Rat((count * 100 * 100) \div total, 100)

\* round(count / total * 100, 2)
Pct(count, total) == Rat(RoundTo(Rat(count * 100, total), 100), 100)

\* lines 171-183
StatsWithPercentages(store) ==
    LET gs == Groups(store)
        present == { s \in { g.site : g \in gs } : SiteStats(gs, s).total > 0 }
    IN  [s \in present |->
            LET counts == SiteStats(gs, s)
            IN  [total_articles |-> counts.total,
                 non_toxic_count |-> counts.non_toxic,
                 slightly_toxic_count |-> counts.slightly_toxic,
                 very_toxic_count |-> counts.very_toxic,
                 non_toxic_pct |-> Pct(counts.non_toxic, counts.total),
                 slightly_toxic_pct |-> Pct(counts.slightly_toxic, counts.total),
                 very_toxic_pct |-> Pct(counts.very_toxic, counts.total)]]

StatsCall == [op |-> "get_statistics_by_site"]

\* line 163 on a result whose _id has no site key (the server drops the key of a
\* field the grouped documents lack): KeyError
StatsRaises ==
    /\ \E k \in 1..Len(predictions) : ~HasSite(predictions[k])
    /\ call' = StatsCall
    /\ scorer_log' = <<>>
    /\ ret' = [raised |-> "KeyError"]
    /\ statistics' = statistics

\* line 190: the snapshot document; computed_at is the time of the call, counted
\* in calls made
StatsDoc(now, mapping) == [computed_at |-> now, statistics |-> mapping]

SaveStatisticsOverwrite(store, doc) == <<doc>>

\* line 192: insert_one on the statistics collection, when it succeeds
SaveStatistics(store, doc) == Append(store, doc)

\* lines 150-186 with the snapshot written
StatsSaved ==
    /\ call' = StatsCall
    /\ scorer_log' = <<>>
    /\ ret' = [raised |-> "no", value |-> StatsWithPercentages(predictions),
               printed |-> "saved"]
    /\ statistics' = SaveStatistics(statistics,
                                    StatsDoc(calls_made', StatsWithPercentages(predictions)))

\* lines 150-186 with insert_one raising in _save_statistics
StatsSaveFails ==
    /\ call' = StatsCall
    /\ scorer_log' = <<>>
    /\ ret' = [raised |-> "no", value |-> StatsWithPercentages(predictions),
               printed |-> "save_error"]
    /\ statistics' = statistics

\* one run of get_statistics_by_site
StatisticsRun ==
    /\ calls_made' = calls_made + 1
    /\ (StatsRaises \/ StatsSaved \/ StatsSaveFails)
    /\ UNCHANGED << frame_runs, predictions, stats, i, pc >>

GetStatistics == pc = "idle" /\ calls_made < MaxRuns /\ StatisticsRun

Next ==
    \/ BatchStart \/ BatchSkipBlank \/ BatchPredictRaises \/ BatchInsertOk
    \/ BatchInsertFails \/ BatchSummary
    \/ PredictTextBlank \/ PredictTextRaises \/ PredictTextInsertOk
    \/ PredictTextInsertFails
    \/ GetStatistics

Spec == Init /\ [][Next]_vars

\* ------------------------------------------------------------------ statistics alone
MaxCount == 6

\* the document the batch stores for an article of a site scored at p
DocOf(site, k, p) ==
    BatchDoc([url |-> <<site, p, k>>, site |-> site, content |-> <<"a">>],
             PredictSegments(<< <<"a">> >>, << <<p>> >>, ServiceVocabulary,
                             ToxicLabels(ServiceVocabulary), DefaultConfig))

\* n documents of a site scored at p
DocsOf(site, n, p) == [k \in 1..n |-> DocOf(site, k, p)]

\* a prediction store with given numbers of documents per site and level, and
\* possibly one document of predict_text
StoreOf(c1, c2, loose) ==
    DocsOf("s1", c1[1], 2000) \o DocsOf("s1", c1[2], 4000) \o DocsOf("s1", c1[3], 8000)
        \o DocsOf("s2", c2[1], 2000) \o DocsOf("s2", c2[2], 4000)
        \o DocsOf("s2", c2[3], 8000)
        \o (IF loose
            THEN << TextDoc(<<"a">>, "None",
                            PredictSegments(<< <<"a">> >>, << <<8000>> >>, ServiceVocabulary,
                                            ToxicLabels(ServiceVocabulary), DefaultConfig)) >>
            ELSE <<>>)

InitStats ==
    /\ ClassifierInit({ServiceVocabulary}, {DefaultConfig})
    /\ SplitIdle /\ PredictIdle
    /\ articles = <<>>
    /\ unique_index = TRUE
    /\ \E c1 \in [1..3 -> 0..MaxCount], c2 \in [1..3 -> 0..1], loose \in BOOLEAN :
          /\ c2[1] + c2[2] + c2[3] <= 1
          /\ predictions = StoreOf(c1, c2, loose)
    /\ statistics = <<>>
    /\ stats = NoStats /\ i = 0 /\ calls_made = 0 /\ batch_runs = 0
    /\ call = NoCall /\ ret = NoResult /\ scorer_log = <<>>
    /\ pc = "idle"

StatsOnce == pc = "idle" /\ calls_made = 0 /\ StatisticsRun

NextStats == StatsOnce

SpecStats == InitStats /\ [][NextStats]_vars

\* ------------------------------------------------------------------ claims on _split_text
RECURSIVE Flatten(_)
Flatten(ss) == IF ss = <<>> THEN <<>> ELSE Head(ss) \o Flatten(Tail(ss))

CeilDiv(n, k) == (n + k - 1) \div k

\* C4: _split_text returns ceil(word_count / max_words) chunks in the original
\* order; every chunk but the last holds exactly max_words words and the last the
\* remainder (1 .. max_words words); the chunks' words, concatenated in order, are
\* the whitespace-split words of the text, each word in exactly one chunk; a text
\* that is empty or only whitespace yields no chunk.
C4_SplitChunks ==
    pc = "split_returned" =>
        LET words == split(text)
            n == Len(words)
            last == Len(chunks)
        IN  /\ last = CeilDiv(n, max_words)
            /\ \A j \in 1..last :
                  /\ split(chunks[j])
                        = SubSeq(words, (j - 1) * max_words + 1, Min(j * max_words, n))
                  /\ j < last => Len(split(chunks[j])) = max_words
                  /\ j = last => Len(split(chunks[j])) = n - (last - 1) * max_words
                  /\ Len(split(chunks[j])) \in 1..max_words
            /\ Flatten([j \in 1..last |-> split(chunks[j])]) = words
            /\ IsBlank(text) => chunks = <<>>

\* a text of three words cut into a full chunk of two and a remainder of one
C4_Witness ==
    /\ pc = "split_returned"
    /\ max_words = 2
    /\ Len(split(text)) = 3
    /\ Len(chunks) = 2
    /\ Len(split(chunks[2])) = 1

\* ------------------------------------------------------------------ claims on predict
RECURSIVE SumOver(_, _)
SumOver(f, S) ==
    IF S = {} THEN 0
    ELSE LET k == CHOOSE x \in S : TRUE IN f[k] + SumOver(f, S \ {k})

ToxicSet == { toxic_labels[k] : k \in 1..Len(toxic_labels) }

\* the arithmetic mean of a segment's probabilities over the toxic label set
MeanOverToxicSet(seg) == Rat(SumOver(seg, ToxicSet), PROB_DEN * Cardinality(ToxicSet))

Returned == pc = "predict_returned" /\ result.raised = "no"

\* C1: for a text of at least one segment, the document toxic score is the maximum
\* over the segments of the mean of the segment's probabilities over the toxic
\* label set (the set being non-empty); for one segment it is that segment's score,
\* and for segment scores 0.2 and 0.8 of the single label toxic it is 0.8 in
\* either order.
C1_MaxOfSegmentMeans ==
    (Returned /\ ToxicSet # {}) =>
        /\ \E k \in 1..Len(segment_probs) :
              RatEq(toxic_score, MeanOverToxicSet(segment_probs[k]))
        /\ \A k \in 1..Len(segment_probs) :
              Geq(toxic_score, MeanOverToxicSet(segment_probs[k]))
        /\ Len(segment_probs) = 1 =>
              RatEq(toxic_score, MeanOverToxicSet(segment_probs[1]))
        /\ (Len(id2label) = 1 /\ segment_probs \in { << <<2000>>, <<8000>> >>,
                                                     << <<8000>>, <<2000>> >> })
              => RatEq(toxic_score, Rat(8, 10))

\* two segments, two toxic labels out of three, the first segment the more toxic
C1_Witness ==
    /\ Returned
    /\ Len(id2label) = 3 /\ Cardinality(ToxicSet) = 2
    /\ Len(segment_probs) = 2
    /\ Gt(MeanOverToxicSet(segment_probs[1]), MeanOverToxicSet(segment_probs[2]))

\* C2: with the default thresholds the toxicity level is a step function of the
\* document toxic score: non_toxic below 0.3, slightly_toxic from 0.3 up to but
\* not including 0.65, very_toxic from 0.65 on.
C2_LevelSteps ==
    (Returned /\ cfg = DefaultConfig /\ toxic_score.d # 0) =>
        LET n == toxic_score.n
            d == toxic_score.d
        IN  /\ 10 * n < 3 * d => result.toxicity_level = "non_toxic"
            /\ (10 * n >= 3 * d /\ 100 * n < 65 * d)
                  => result.toxicity_level = "slightly_toxic"
            /\ 100 * n >= 65 * d => result.toxicity_level = "very_toxic"

\* a score of exactly 0.65 is very_toxic
C2_Witness ==
    /\ Returned /\ cfg = DefaultConfig
    /\ toxic_score.d # 0 /\ 100 * toxic_score.n = 65 * toxic_score.d
    /\ result.toxicity_level = "very_toxic"

\* C3: with the default ARTICLE_THRESHOLD the prediction is toxic exactly when the
\* document toxic score is >= 0.5, whatever the two level thresholds and the level.
C3_PredictionThreshold ==
    (Returned /\ cfg.article = ARTICLE_THRESHOLD) =>
        (result.prediction = "toxic"
            <=> (toxic_score.d # 0 /\ 2 * toxic_score.n >= toxic_score.d))
        /\ result.prediction \in {"toxic", "non_toxic"}

\* level thresholds in the wrong order: a score under 0.5 is very_toxic and non_toxic
C3_Witness ==
    /\ Returned
    /\ cfg.article = ARTICLE_THRESHOLD /\ cfg # DefaultConfig
    /\ result.toxicity_level = "very_toxic"
    /\ result.prediction = "non_toxic"

\* ------------------------------------------------------------------ claims on the statistics
StatsReturned == call.op = "get_statistics_by_site" /\ ret.raised = "no"

\* the prediction records of a site; "None" stands for the records without a site
RecordsOfSite(site) ==
    { k \in 1..Len(predictions) :
        IF "site" \in DOMAIN predictions[k] THEN predictions[k].site = site
        ELSE site = "None" }

\* C5: every site in the result of get_statistics_by_site has its three level
\* counts adding up to total_articles, total_articles is the number of prediction
\* records of the site, and a site without a prediction record is not in the result.
C5_SiteCounts ==
    StatsReturned =>
        /\ \A site \in DOMAIN ret.value :
              LET row == ret.value[site]
              IN  /\ row.non_toxic_count + row.slightly_toxic_count
                        + row.very_toxic_count = row.total_articles
                  /\ row.total_articles = Cardinality(RecordsOfSite(site))
                  /\ row.total_articles > 0
        /\ \A site \in Sites \cup {"None"} :
              RecordsOfSite(site) = {} => site \notin DOMAIN ret.value

\* a site with records of all three levels is in the result, a site without any is not
C5_Witness ==
    /\ StatsReturned
    /\ "s1" \in DOMAIN ret.value
    /\ ret.value["s1"].non_toxic_count >= 1
    /\ ret.value["s1"].slightly_toxic_count >= 2
    /\ ret.value["s1"].very_toxic_count >= 3
    /\ RecordsOfSite("s2") = {}
    /\ "s2" \notin DOMAIN ret.value

Abs(x) == IF x < 0 THEN -x ELSE x

\* p, in hundredths of a percent, is count / total * 100 rounded to 2 decimals
IsRoundedPct(p, count, total) ==
    p.d = 100 /\ 2 * Abs(p.n * total - count * 100 * 100) <= total

\* C6: every percentage of the result is count / total * 100 rounded to 2
\* decimals, the three percentages of a site add up to 100.00 give or take 0.01,
\* and 6, 3 and 1 records yield total 10 and 60.00, 30.00 and 10.00.
C6_Percentages ==
    StatsReturned =>
        \A site \in DOMAIN ret.value :
            LET row == ret.value[site]
            IN  /\ IsRoundedPct(row.non_toxic_pct, row.non_toxic_count, row.total_articles)
                /\ IsRoundedPct(row.slightly_toxic_pct, row.slightly_toxic_count,
                                row.total_articles)
                /\ IsRoundedPct(row.very_toxic_pct, row.very_toxic_count, row.total_articles)
                /\ Abs(row.non_toxic_pct.n + row.slightly_toxic_pct.n
                        + row.very_toxic_pct.n - 100 * 100) <= 1
                /\ (Cardinality({ k \in RecordsOfSite(site) :
                                    predictions[k].toxicity_level = "non_toxic" }) = 6
                    /\ Cardinality({ k \in RecordsOfSite(site) :
                                    predictions[k].toxicity_level = "slightly_toxic" }) = 3
                    /\ Cardinality({ k \in RecordsOfSite(site) :
                                    predictions[k].toxicity_level = "very_toxic" }) = 1)
                   => /\ row.total_articles = 10
                      /\ row.non_toxic_pct = Rat(6000, 100)
                      /\ row.slightly_toxic_pct = Rat(3000, 100)
                      /\ row.very_toxic_pct = Rat(1000, 100)

\* the site of the example, 6 + 3 + 1 records
C6_Witness ==
    /\ StatsReturned
    /\ "s1" \in DOMAIN ret.value
    /\ ret.value["s1"].non_toxic_count = 6
    /\ ret.value["s1"].slightly_toxic_count = 3
    /\ ret.value["s1"].very_toxic_count = 1
    /\ ret.value["s1"].non_toxic_pct = Rat(6000, 100)

\* ------------------------------------------------------------------ claims on the batch
InBatch(step) == call.op = "predict_all_articles" /\ call.step = step
InBatchNext(step) == call'.op = "predict_all_articles" /\ call'.step = step

\* C7: when the scorer fails on an article of the batch, errors goes up by one for
\* it, no prediction record is stored for it, and the batch goes on with the next
\* article.
C7_ScorerFailureCaught ==
    [][InBatchNext("scorer_failure") =>
            /\ stats'.errors = stats.errors + 1
            /\ predictions' = predictions
            /\ pc' = "batch"
            /\ i' = i + 1]_vars

\* C8: a run of predict_all_articles that has ended has printed the summary of
\* the counts.
C8_EndsWithSummary ==
    (call.op = "predict_all_articles" /\ pc = "idle") =>
        (ret.raised = "no" /\ ret.printed = "summary")

IsPrefix(a, b) == Len(a) <= Len(b) /\ SubSeq(b, 1, Len(a)) = a

\* C9: when the insert of an article's prediction fails, errors goes up by one,
\* success and the level counters stay, the batch goes on with the next article,
\* and the prediction store keeps every record it held (no step of the batch
\* removes or changes one).
C9_InsertFailureCounted ==
    [][/\ InBatchNext("insert_failed") =>
            /\ stats'.errors = stats.errors + 1
            /\ stats'.success = stats.success
            /\ stats'.non_toxic = stats.non_toxic
            /\ stats'.slightly_toxic = stats.slightly_toxic
            /\ stats'.very_toxic = stats.very_toxic
            /\ stats'.toxic = stats.toxic
            /\ pc' = "batch"
            /\ i' = i + 1
            /\ predictions' = predictions
       /\ call'.op = "predict_all_articles" => IsPrefix(predictions, predictions')]_vars

\* the second article's insert failed after the first one's succeeded in the same run
C9_Witness ==
    /\ InBatch("insert_failed")
    /\ i = 2
    /\ stats.success = 1 /\ stats.errors = 1
    /\ Len(predictions) >= 1
    /\ predictions[Len(predictions)].url = articles[1].url

\* C10: predict_text on an empty or whitespace-only text returns an error result
\* whose prediction is None, without raising, without handing anything to the
\* scorer, and leaves the prediction store as it was.
C10_BlankTextError ==
    [][(call'.op = "predict_text" /\ \A k \in 1..Len(call'.text) : call'.text[k] \in Whitespace)
          => /\ ret'.raised = "no"
             /\ "error" \in DOMAIN ret'
             /\ ret'.prediction = NoneDoc
             /\ scorer_log' = <<>>
             /\ predictions' = predictions]_vars

\* a whitespace-only text refused, with a record already in the store
C10_Witness ==
    /\ call.op = "predict_text"
    /\ call.text = <<"\t", " ">>
    /\ ret.raised = "no" /\ ret.prediction = NoneDoc
    /\ scorer_log = <<>>
    /\ Len(predictions) = 1

\* ------------------------------------------------------------------ claims on the label set
\* C11: a vocabulary without a label matching a toxicity keyword makes the
\* construction of the classifier fail, so predict never returns a prediction
\* computed over an empty toxic label set.
C11_EmptyToxicSetRejected == Returned => toxic_labels # <<>>

\* ------------------------------------------------------------------ claims on the snapshots
StatsStep == call'.op = "get_statistics_by_site" /\ calls_made' = calls_made + 1

\* C12: a run of get_statistics_by_site whose write succeeds appends exactly one
\* snapshot, stamped with the time of the run and holding the mapping it returns;
\* a run whose write fails appends none and still returns the mapping of the
\* prediction records, without raising; no run changes a prediction record, and
\* no step of the service (a statistics run, a prediction insert, a batch step)
\* removes or changes a stored snapshot, so their number never decreases.
C12_SnapshotsAppendOnly ==
    [][/\ (StatsStep /\ ret'.raised = "no" /\ ret'.printed = "saved") =>
            /\ Len(statistics') = Len(statistics) + 1
            /\ statistics'[Len(statistics')].statistics = ret'.value
            /\ statistics'[Len(statistics')].computed_at = calls_made'
            /\ ret'.value = StatsWithPercentages(predictions)
       /\ (StatsStep /\ ret'.raised = "no" /\ ret'.printed = "save_error") =>
            /\ statistics' = statistics
            /\ ret'.value = StatsWithPercentages(predictions)
       /\ StatsStep => predictions' = predictions
       /\ IsPrefix(statistics, statistics')
       /\ Len(statistics') >= Len(statistics)]_vars

\* a second snapshot written after a prediction insert that followed the first
\* one: the first is still there, and the two mappings differ
C12_Witness ==
    /\ StatsReturned /\ ret.printed = "saved"
    /\ Len(statistics) = 2
    /\ statistics[1].statistics # statistics[2].statistics
    /\ statistics[2].statistics = ret.value

\* ------------------------------------------------------------------ display_statistics
\* the orders a dict of the sites may have: the order in which the sites first
\* show up in the results of aggregate, which the server does not fix
Orders(S) ==
    { o \in [1..Cardinality(S) -> S] : \A j, k \in 1..Cardinality(S) : o[j] = o[k] => j = k }

\* a + b on two doubles that are percentages rounded to 2 decimals, given in
\* hundredths: by how many units in the last place the double sum is off the
\* double nearest to (a + b) / 100. IEEE 754 binary64, round to nearest even, for
\* the percentages of totals up to 12: 28.57 + 57.14 is 85.71000000000001,
\* 18.18 + 54.55 is 72.72999999999999.
FloatSumOffset(a, b) ==
    IF {a, b} \in { {2857, 5714}, {909, 4545}, {909, 7273} } THEN 1
    ELSE IF {a, b} \in { {1818, 5455}, {2727, 3636} } THEN -1
    ELSE 0

\* line 226, the sort key x[1]["slightly_toxic_pct"] + x[1]["very_toxic_pct"] as
\* the double it is: h hundredths, off by e units in the last place
SortKey(row) ==
    [h |-> row.slightly_toxic_pct.n + row.very_toxic_pct.n,
     e |-> FloatSumOffset(row.slightly_toxic_pct.n, row.very_toxic_pct.n)]

\* k1 > k2 on the doubles
KeyGt(k1, k2) == k1.h > k2.h \/ (k1.h = k2.h /\ k1.e > k2.e)

InsertBeforeEqual(sorted, site, mapping) ==
    LET before == SelectSeq(sorted, LAMBDA s : KeyGt(SortKey(mapping[s]), SortKey(mapping[site])))
        after == SelectSeq(sorted, LAMBDA s : ~KeyGt(SortKey(mapping[s]), SortKey(mapping[site])))
    IN  before \o <<site>> \o after

\* where sorted(..., reverse=True) puts an item that came after those of sorted:
\* behind every item whose key is not smaller than its own
Insert(sorted, site, mapping) ==
    LET before == SelectSeq(sorted, LAMBDA s : ~KeyGt(SortKey(mapping[site]), SortKey(mapping[s])))
        after == SelectSeq(sorted, LAMBDA s : KeyGt(SortKey(mapping[site]), SortKey(mapping[s])))
    IN  before \o <<site>> \o after

RECURSIVE SortedSites(_, _)
\* lines 224-228: sorted(stats.items(), key=..., reverse=True), as the sites
SortedSites(order, mapping) ==
    IF order = <<>> THEN <<>>
    ELSE Insert(SortedSites(SubSeq(order, 1, Len(order) - 1), mapping),
                order[Len(order)], mapping)

DisplayCall == [op |-> "display_statistics"]

\* lines 212-215 and 224-239: what display_statistics prints for a mapping whose
\* sites are in the given order
Displayed(order, mapping) ==
    IF order = <<>>
    THEN [raised |-> "no", printed |-> "no_statistics"]
    ELSE [raised |-> "no", printed |-> "table", stats_order |-> order,
          listed |-> SortedSites(order, mapping),
          most_toxic |-> SortedSites(order, mapping)[1]]

\* one run of display_statistics: get_statistics_by_site (raising KeyError, or
\* returning with the snapshot written or not), then the table
DisplayRun ==
    /\ calls_made' = calls_made + 1
    /\ call' = DisplayCall
    /\ scorer_log' = <<>>
    /\ \/ /\ \E k \in 1..Len(predictions) : ~HasSite(predictions[k])
          /\ ret' = [raised |-> "KeyError"]
          /\ statistics' = statistics
       \/ \E mapping \in {StatsWithPercentages(predictions)} :
          \E order \in Orders(DOMAIN mapping), saved \in BOOLEAN :
             /\ ret' = Displayed(order, mapping)
             /\ statistics' = IF saved
                              THEN SaveStatistics(statistics, StatsDoc(calls_made', mapping))
                              ELSE statistics
    /\ UNCHANGED << frame_runs, predictions, stats, i, pc >>

\* the numbers of records (non_toxic, slightly_toxic, very_toxic) of a site: none,
\* two or seven records
DisplayProfiles ==
    { c \in [1..3 -> 0..MaxCount] : c[1] + c[2] + c[3] \in {0, 2, 7} }

InitDisplay ==
    /\ ClassifierInit({ServiceVocabulary}, {DefaultConfig})
    /\ SplitIdle /\ PredictIdle
    /\ articles = <<>>
    /\ unique_index = TRUE
    /\ \E c1 \in DisplayProfiles, c2 \in DisplayProfiles, loose \in BOOLEAN :
          predictions = StoreOf(c1, c2, loose)
    /\ statistics = <<>>
    /\ stats = NoStats /\ i = 0 /\ calls_made = 0 /\ batch_runs = 0
    /\ call = NoCall /\ ret = NoResult /\ scorer_log = <<>>
    /\ pc = "idle"

DisplayOnce == pc = "idle" /\ calls_made = 0 /\ DisplayRun

NextDisplay == DisplayOnce

SpecDisplay == InitDisplay /\ [][NextDisplay]_vars

\* ------------------------------------------------------------------ claims on display_statistics
TablePrinted ==
    call.op = "display_statistics" /\ ret.raised = "no" /\ ret.printed = "table"

\* the place of a site in a sequence of distinct sites
PlaceIn(seq, site) == CHOOSE k \in 1..Len(seq) : seq[k] = site

\* slightly_toxic_pct + very_toxic_pct of a site of the mapping, in hundredths of
\* a percent
Combined(mapping, site) ==
    mapping[site].slightly_toxic_pct.n + mapping[site].very_toxic_pct.n

\* the listing holds every site of the mapping once
ListsEverySite ==
    /\ Len(ret.listed) = Len(ret.stats_order)
    /\ \A k \in 1..Len(ret.stats_order) : \E j \in 1..Len(ret.listed) :
          ret.listed[j] = ret.stats_order[k]

C14_LevelCountersAddUp ==
    [][/\ call'.op = "predict_all_articles" =>
            stats'.non_toxic + stats'.slightly_toxic + stats'.very_toxic = stats'.success
       /\ InBatchNext("insert_ok") =>
            LET level == predictions'[Len(predictions')].toxicity_level
            IN  /\ stats'.non_toxic
                      = stats.non_toxic + (IF level = "non_toxic" THEN 1 ELSE 0)
                /\ stats'.slightly_toxic
                      = stats.slightly_toxic + (IF level = "slightly_toxic" THEN 1 ELSE 0)
                /\ stats'.very_toxic
                      = stats.very_toxic + (IF level = "very_toxic" THEN 1 ELSE 0)]_vars

\* a content that is empty or holds only whitespace
BlankContent(k) ==
    \A c \in 1..Len(articles[k].content) : articles[k].content[c] \in Whitespace

\* the number of such articles among the first n of the store
BlanksSeen(n) == Cardinality({ k \in 1..n : BlankContent(k) })

HandlingStep == InBatchNext("skip") \/ InBatchNext("insert_ok") \/ InBatchNext("insert_failed")

\* C15: predict_all_articles handles the articles one at a time in the order of
\* the list; after each handled article processed = success + errors + the number
\* of blank articles seen so far; an article whose content is empty or whitespace
\* only adds one to processed and to nothing else, is not handed to the scorer and
\* adds no prediction record; when the run completes (the summary is printed),
\* processed is the number of articles in the store.
C15_ProcessedCounts ==
    [][/\ HandlingStep =>
            /\ i' = i + 1
            /\ stats'.processed = i'
            /\ stats'.processed = stats'.success + stats'.errors + BlanksSeen(i')
            /\ InBatchNext("insert_ok") =>
                  /\ Len(predictions') = Len(predictions) + 1
                  /\ predictions'[Len(predictions')].url = articles[i + 1].url
            /\ BlankContent(i + 1) =>
                  /\ InBatchNext("skip")
                  /\ stats' = [stats EXCEPT !.processed = @ + 1]
                  /\ scorer_log' = <<>>
                  /\ predictions' = predictions
            /\ ~BlankContent(i + 1) => ~InBatchNext("skip")
       /\ (call'.op = "predict_all_articles" /\ pc' = "batch") =>
            /\ stats'.processed = i'
            /\ stats'.processed = stats'.success + stats'.errors + BlanksSeen(i')
            /\ articles' = articles
       /\ (call'.op = "predict_all_articles" /\ scorer_log' # <<>>) => ~BlankContent(i + 1)
       /\ InBatchNext("summary") => stats'.processed = Len(articles)]_vars

\* a run completed over a scored article followed by a whitespace-only one
C15_Witness ==
    /\ InBatch("summary")
    /\ Len(articles) = 2
    /\ ~BlankContent(1) /\ BlankContent(2) /\ articles[2].content # <<>>
    /\ stats.processed = 2 /\ stats.success = 1 /\ stats.errors = 0
    /\ Len(predictions) = 1

\* ------------------------------------------------------------------ claims on the unique index
AtMostOnePerUrl(store) ==
    \A j, k \in 1..Len(store) : store[j].url = store[k].url => j = k

\* the number of articles of the store with a content that is not blank
NonBlank == Cardinality({ k \in 1..Len(articles) : ~BlankContent(k) })

RunStartStore == SubSeq(predictions, 1, Len(predictions) - stats.success)

\* every non-blank article had a prediction record of its url when the run started
AllStoredAtRunStart ==
    \A k \in 1..Len(articles) :
        ~BlankContent(k) =>
            \E j \in 1..Len(RunStartStore) : RunStartStore[j].url = articles[k].url

Predicted == pc \in {"predict_returned", "api_responded"} /\ result.raised = "no"

Responded == pc = "api_responded" /\ ret.status = 200

\* C17: the outputs of predict agree with the confidence it reports (the score
\* rounded to 3 decimals): prediction is toxic exactly when confidence >=
\* ARTICLE_THRESHOLD, toxicity_level is the level the thresholds give to
\* confidence, and every response of POST /predict has
\* is_toxic = (article_score >= threshold).
C17_ConsistentWithConfidence ==
    /\ Predicted =>
          /\ result.prediction = "toxic" <=> Geq(result.confidence, cfg.article)
          /\ result.toxicity_level = Level(result.confidence, cfg)
    /\ Responded => (ret.is_toxic <=> Geq(ret.article_score, ret.threshold))

\* c is x rounded to 3 decimals: a count of thousandths at most half a thousandth
\* away from x (NaN for NaN)
IsRounded3(c, x) ==
    IF IsNaN(x) THEN IsNaN(c)
    ELSE c.d = 1000 /\ 2 * Abs(c.n * x.d - x.n * 1000) <= x.d

\* a threshold with at most 3 decimals
ThreeDecimals(t) == t.d # 0 /\ (t.n * 1000) % t.d = 0

\* C17, away from the thresholds: for thresholds of at most 3 decimals, a toxic
\* prediction has confidence >= ARTICLE_THRESHOLD and a confidence greater than
\* ARTICLE_THRESHOLD has a toxic prediction; toxicity_level is the level the
\* thresholds give to confidence unless confidence equals a level threshold; a
\* response of POST /predict with is_toxic has article_score >= threshold, and
\* one with article_score > threshold has is_toxic. At a confidence equal to a
\* threshold the outputs are those of the score before rounding, which may lie below.
C17_ConsistentAwayFromThresholds ==
    (ThreeDecimals(cfg.article) /\ ThreeDecimals(cfg.slightly) /\ ThreeDecimals(cfg.very)) =>
        /\ Predicted =>
              /\ result.prediction = "toxic" => Geq(result.confidence, cfg.article)
              /\ Gt(result.confidence, cfg.article) => result.prediction = "toxic"
              /\ (~RatEq(result.confidence, cfg.slightly)
                    /\ ~RatEq(result.confidence, cfg.very))
                    => result.toxicity_level = Level(result.confidence, cfg)
              /\ IsRounded3(result.confidence, toxic_score)
        /\ Responded =>
              /\ ret.is_toxic => Geq(ret.article_score, ret.threshold)
              /\ Gt(ret.article_score, ret.threshold) => ret.is_toxic
              /\ IsRounded3(ret.article_score, toxic_score)
              /\ ret.threshold = cfg.article

\* a response for a score of 0.4996: not toxic, with article_score 0.5 at a
\* threshold of 0.5, and level slightly_toxic
C17_Witness ==
    /\ Responded
    /\ cfg = DefaultConfig
    /\ toxic_score = Rat(4996, 10000)
    /\ ret.article_score = Rat(500, 1000)
    /\ ~ret.is_toxic
    /\ result.toxicity_level = "slightly_toxic"

====
